---- MODULE Spec2Model ----
(***************************************************************************)
(* Model of testit-adapter-cucumber/src/scenario-storage.ts: the Storage   *)
(* class that collects cucumber messages and assembles one TestResult per  *)
(* test case.                                                              *)
(*                                                                         *)
(* Optional values (T | undefined) are sequences of length at most one:    *)
(* None is undefined, Some(x) is the defined value x.  Strings are TLA+    *)
(* strings and \o is string concatenation.                                 *)
(***************************************************************************)
EXTENDS Naturals, Integers, Sequences, FiniteSets, TLC

VARIABLES
    gherkinDocuments,   \* GherkinDocument[]
    pickles,            \* Pickle[]
    testCases,          \* TestCase[]
    testCasesStarted,   \* TestCaseStarted[]
    testCasesFinished,  \* TestCaseFinished[]
    testStepsStarted,   \* TestStepStarted[]
    testStepsFinished,  \* TestStepFinished[]
    messages,           \* Record<string, string[]>
    resultLinks,        \* Record<string, Link[]>: case id -> reference of a list
    attachments,        \* Record<string, Attachment[]>
    heap,               \* the Link[] objects, by reference
    addedMessages,      \* history: case id -> texts passed to addMessage
    addedLinks,         \* history: case id -> lists passed to addLinks
    addedAttachments,   \* history: case id -> ids passed to addAttachment
    arrival,            \* history: the messages saved, in the order of the calls
    ret                 \* the last call and what it returned or threw

store == <<gherkinDocuments, pickles, testCases, testCasesStarted,
           testCasesFinished, testStepsStarted, testStepsFinished>>

accumulators == <<messages, resultLinks, attachments, heap>>

history == <<addedMessages, addedLinks, addedAttachments>>

vars == <<store, accumulators, history, arrival, ret>>

----------------------------------------------------------------------------
(* Bounds of the model.                                                    *)

\* longest pickle of the step-filter specification
MaxSteps == 6

\* accumulator calls (addMessage, addLinks, addAttachment) in one run
MaxAccCalls == 3

\* messages saved again after a complete run
MaxDuplicates == 2

----------------------------------------------------------------------------
(* Values.                                                                 *)

None == <<>>

Some(x) == <<x>>

\* Array.prototype.find: the index of the first element passing the test, 0
\* when there is none (find returns undefined)
Find(arr, Test(_)) ==
    LET hits == {i \in 1..Len(arr) : Test(arr[i])}
    IN  IF hits = {} THEN 0 ELSE CHOOSE i \in hits : \A j \in hits : i <= j

\* Array.prototype.join
RECURSIVE Join(_, _)
Join(arr, sep) ==
    IF Len(arr) = 0 THEN ""
    ELSE IF Len(arr) = 1 THEN arr[1]
    ELSE arr[1] \o sep \o Join(Tail(arr), sep)

\* Array.prototype.map
Map(arr, F(_)) == [i \in 1..Len(arr) |-> F(arr[i])]

----------------------------------------------------------------------------
(* Collaborators: scenario-parser, tags-parser, testit-js-commons.         *)

\* parseTags: the tags are {key, value} pairs; externalId, name and links are
\* what the tags of that key give
TagValue(tags, key) ==
    LET i == Find(tags, LAMBDA t : t.key = key)
    IN  IF i = 0 THEN None ELSE Some(tags[i].value)

parseTags(tags) ==
    [externalId |-> TagValue(tags, "ExternalId"),
     name       |-> TagValue(tags, "DisplayName"),
     links      |-> SelectSeq(tags, LAMBDA t : t.key = "Links")]

\* mapDate: epoch seconds to a date (milliseconds since the epoch)
mapDate(seconds) == seconds * 1000

\* mapStatus: a TestStepResultStatus to an outcome
mapStatus(status) ==
    CASE status = "PASSED"  -> "Passed"
      [] status = "FAILED"  -> "Failed"
      [] status = "SKIPPED" -> "Skipped"
      [] OTHER              -> "Blocked"

\* calculateResultOutcome: the outcome of a test from those of its steps
calculateResultOutcome(outcomes) ==
    IF \E i \in 1..Len(outcomes) : outcomes[i] = "Failed" THEN "Failed"
    ELSE IF \E i \in 1..Len(outcomes) : outcomes[i] = "Blocked" THEN "Blocked"
    ELSE IF \E i \in 1..Len(outcomes) : outcomes[i] = "Skipped" THEN "Skipped"
    ELSE "Passed"

----------------------------------------------------------------------------
(* Results of calls.                                                       *)

Error(msg) == [kind |-> "error", error |-> msg]

Ok(value) == [kind |-> "ok", value |-> value]

Void == [op |-> "void"]

----------------------------------------------------------------------------
(* Storage: queries.                                                       *)

\* isResolvedFrom without the comparison of the pickle ids
RECURSIVE isResolvedFromAnyPickle(_, _, _)
isResolvedFromAnyPickle(ps, testCase, i) ==
    IF i > Len(ps) THEN FALSE
    ELSE IF parseTags(ps[i].tags).externalId # None
         THEN TRUE
         ELSE isResolvedFromAnyPickle(ps, testCase, i + 1)

\* the for loop of isResolvedTestCase, from pickle i on
RECURSIVE isResolvedFrom(_, _, _)
isResolvedFrom(ps, testCase, i) ==
    IF i > Len(ps) THEN FALSE
    ELSE IF parseTags(ps[i].tags).externalId # None
            /\ testCase.pickleId = ps[i].id
         THEN TRUE
         ELSE isResolvedFrom(ps, testCase, i + 1)

isResolvedTestCase(testCase) == isResolvedFrom(pickles, testCase, 1)

getAttachments(testCaseId) ==
    IF testCaseId \notin DOMAIN attachments THEN None
    ELSE Some(attachments[testCaseId])

\* FindTestStep with the slip of the CaseStarted lookup: the callback compares
\* a test step's pickleStepId with itself
FindTestStepShadowed(pickleStep, testCase) ==
    Find(testCase.testSteps, LAMBDA step : step.pickleStepId = step.pickleStepId)

\* the test step of a pickle step: the index found, 0 for undefined
FindTestStep(pickleStep, testCase) ==
    Find(testCase.testSteps, LAMBDA step : step.pickleStepId = pickleStep.id)

FindTestStepStarted(testStep) ==
    Find(testStepsStarted, LAMBDA step : step.testStepId = testStep.id)

FindTestStepFinished(testStepStarted) ==
    Find(testStepsFinished,
         LAMBDA step : step.testStepId = testStepStarted.testStepId)

\* the lookup chain shared by getStepResult and getStepMessage: the records
\* found, or the error thrown
StepLookup(pickleStep, testCase) ==
    LET ts == FindTestStep(pickleStep, testCase)
    IN  IF ts = 0 THEN Error("TestCase step not found")
        ELSE
        LET testStep == testCase.testSteps[ts]
            ss == FindTestStepStarted(testStep)
        IN  IF ss = 0 THEN Error("TestStepStarted not found")
            ELSE
            LET testStepStarted == testStepsStarted[ss]
                sf == FindTestStepFinished(testStepStarted)
            IN  IF sf = 0 THEN Error("TestStepFinished not found")
                ELSE Ok([testStepStarted  |-> testStepStarted,
                         testStepFinished |-> testStepsFinished[sf]])

getStepResult(pickleStep, testCase) ==
    LET found == StepLookup(pickleStep, testCase)
    IN  IF found.kind = "error" THEN found
        ELSE Ok([title       |-> pickleStep.text,
                 startedOn   |-> mapDate(found.value.testStepStarted.timestamp.seconds),
                 duration    |-> found.value.testStepFinished.testStepResult.duration.seconds,
                 completedOn |-> mapDate(found.value.testStepFinished.timestamp.seconds),
                 outcome     |-> mapStatus(found.value.testStepFinished.testStepResult.status)])

getStepMessage(pickleStep, testCase) ==
    LET found == StepLookup(pickleStep, testCase)
    IN  IF found.kind = "error" THEN found
        ELSE Ok(found.value.testStepFinished.testStepResult.message)

\* KeepStep dropping a skipped step only after a failed one
KeepStepAfterFailure(arr, i) ==
    LET prevOutcome == IF i > 1 THEN Some(arr[i - 1].outcome) ELSE None
    IN  ~ ( /\ arr[i].outcome = "Skipped"
            /\ prevOutcome # None
            /\ prevOutcome[1] \in {"Failed"} )

\* KeepStep dropping a skipped step only after a skipped one
KeepStepAfterSkip(arr, i) ==
    LET prevOutcome == IF i > 1 THEN Some(arr[i - 1].outcome) ELSE None
    IN  ~ ( /\ arr[i].outcome = "Skipped"
            /\ prevOutcome # None
            /\ prevOutcome[1] \in {"Skipped"} )

\* KeepStep dropping every skipped step that has a predecessor
KeepStepUnlessSkipped(arr, i) ==
    LET prevOutcome == IF i > 1 THEN Some(arr[i - 1].outcome) ELSE None
    IN  ~ ( /\ arr[i].outcome = "Skipped"
            /\ prevOutcome # None )

\* the callback of .filter in getTestResult: is arr[i] kept
KeepStep(arr, i) ==
    LET prevOutcome == IF i > 1 THEN Some(arr[i - 1].outcome) ELSE None
    IN  ~ ( /\ arr[i].outcome = "Skipped"
            /\ prevOutcome # None
            /\ prevOutcome[1] \in {"Failed", "Skipped"} )

\* Array.prototype.filter with that callback, from index i on
RECURSIVE FilterFrom(_, _)
FilterFrom(arr, i) ==
    IF i > Len(arr) THEN <<>>
    ELSE (IF KeepStep(arr, i) THEN <<arr[i]>> ELSE <<>>) \o FilterFrom(arr, i + 1)

FilterSteps(arr) == FilterFrom(arr, 1)

\* the index of the first error in a sequence of results, 0 when there is none
FirstError(results) == Find(results, LAMBDA r : r.kind = "error")

\* the for loop that collects the steps' messages
RECURSIVE CollectMessages(_)
CollectMessages(found) ==
    IF Len(found) = 0 THEN <<>>
    ELSE (IF found[1].value # None THEN <<found[1].value[1]>> ELSE <<>>)
         \o CollectMessages(Tail(found))

\* FindTestCase with the slip of the CaseStarted lookup: the callback compares
\* a case's id with itself
FindTestCaseShadowed(testId) ==
    Find(testCases, LAMBDA testCase : testCase.id = testCase.id)

\* the lookups of getTestResult: the index found, 0 for undefined
FindTestCase(testId) ==
    Find(testCases, LAMBDA testCase : testCase.id = testId)

FindPickle(testCase) ==
    Find(pickles, LAMBDA pickle : pickle.id = testCase.pickleId)

\* the callback's parameter is named testCase and shadows the case, so it
\* compares the id of a TestCaseStarted with itself
FindTestCaseStarted(testCase) ==
    Find(testCasesStarted, LAMBDA started : started.id = started.id)

FindTestCaseFinished(testCaseStarted) ==
    Find(testCasesFinished,
         LAMBDA finished : finished.testCaseStartedId = testCaseStarted.id)

\* ExternalIdMissing testing the wrong field of the parsed tags
ExternalIdMissingByName(tags) == tags.name = None

\* the test of the external id in getTestResult
ExternalIdMissing(tags) == tags.externalId = None

getTestResult(testId) ==
    LET tc == FindTestCase(testId)
    IN  IF tc = 0 THEN Error("TestCase not found")
        ELSE
        LET testCase == testCases[tc]
            p == FindPickle(testCase)
        IN  IF p = 0 THEN Error("Pickle not found")
            ELSE
            LET pickle == pickles[p]
                tags == parseTags(pickle.tags)
            IN  IF ExternalIdMissing(tags) THEN Error("External ID is not provided")
                ELSE
                LET cs == FindTestCaseStarted(testCase)
                IN  IF cs = 0 THEN Error("TestCaseStarted not found")
                    ELSE
                    LET testCaseStarted == testCasesStarted[cs]
                        cf == FindTestCaseFinished(testCaseStarted)
                    IN  IF cf = 0 THEN Error("TestCaseFinished not found")
                        ELSE
                        LET testCaseFinished == testCasesFinished[cf]
                            mapped == Map(pickle.steps,
                                          LAMBDA step : getStepResult(step, testCase))
                        IN  IF FirstError(mapped) # 0 THEN mapped[FirstError(mapped)]
                            ELSE
                            LET steps == FilterSteps(Map(mapped, LAMBDA r : r.value))
                                found == Map(pickle.steps,
                                             LAMBDA step : getStepMessage(step, testCase))
                            IN  IF FirstError(found) # 0 THEN found[FirstError(found)]
                                ELSE
                                Ok([externalId  |-> tags.externalId[1],
                                    displayName |-> IF tags.name # None
                                                    THEN tags.name[1] ELSE pickle.name,
                                    links       |-> tags.links,
                                    resultLinks |-> IF testCase.id \in DOMAIN resultLinks
                                                    THEN heap[resultLinks[testCase.id]]
                                                    ELSE <<>>,
                                    stepResults |-> steps,
                                    outcome     |-> calculateResultOutcome(
                                                        Map(steps, LAMBDA s : s.outcome)),
                                    startedOn   |-> mapDate(testCaseStarted.timestamp.seconds),
                                    completedOn |-> mapDate(testCaseFinished.timestamp.seconds),
                                    duration    |-> testCaseFinished.timestamp.seconds
                                                    - testCaseStarted.timestamp.seconds,
                                    message     |-> IF testCase.id \in DOMAIN messages
                                                    THEN Some(Join(messages[testCase.id], "\n\n"))
                                                    ELSE None,
                                    traces      |-> Join(CollectMessages(found), "\n\n"),
                                    attachments |-> getAttachments(testCase.id)])

----------------------------------------------------------------------------
(* The messages of the runs: what the cucumber runner can emit.            *)

Tag(key, value) == [key |-> key, value |-> value]

Timestamp(seconds) == [seconds |-> seconds]

\* scenario Login: two steps, carries an external id
PickleLogin ==
    [id |-> "p1", name |-> "Login",
     steps |-> <<[id |-> 1, text |-> "open the page"],
                 [id |-> 2, text |-> "sign in"]>>,
     tags |-> <<Tag("ExternalId", "E1")>>]

\* the same scenario with a display name and no external id
PickleLoginUntagged == [PickleLogin EXCEPT !.tags = <<Tag("DisplayName", "Sign in")>>]

\* scenario Draft: no steps, carries an external id and a display name
PickleDraft ==
    [id |-> "p2", name |-> "Draft", steps |-> <<>>,
     tags |-> <<Tag("DisplayName", "Empty draft"), Tag("ExternalId", "E2")>>]


CaseLogin ==
    [id |-> "c1", pickleId |-> "p1",
     testSteps |-> <<[id |-> 11, pickleStepId |-> 1],
                     [id |-> 12, pickleStepId |-> 2]>>]

\* a case of Login that lacks the test step of the second pickle step
CaseLoginShort == [CaseLogin EXCEPT !.testSteps = <<[id |-> 11, pickleStepId |-> 1]>>]

CaseDraft == [id |-> "c2", pickleId |-> "p2", testSteps |-> <<>>]

CaseInputs == {CaseLogin, CaseLoginShort, CaseDraft}

CaseIds == {"c1", "c2"}

StartedLogin == [id |-> "cs1", testCaseId |-> "c1", timestamp |-> Timestamp(10)]

StartedDraft == [id |-> "cs2", testCaseId |-> "c2", timestamp |-> Timestamp(20)]

FinishedLogin == [testCaseStartedId |-> "cs1", timestamp |-> Timestamp(13)]

FinishedDraft == [testCaseStartedId |-> "cs2", timestamp |-> Timestamp(27)]

StepStarted(testStepId) ==
    [testStepId |-> testStepId, testCaseStartedId |-> "cs1",
     timestamp |-> Timestamp(10)]


Statuses == {"PASSED", "FAILED", "SKIPPED", "PENDING"}

\* the message of a step's result: a failed step carries the failure's text, a
\* skipped one the reason, a pending one an empty text, a passed one none
StepMessage(status) ==
    CASE status = "FAILED"  -> Some("boom")
      [] status = "SKIPPED" -> Some("not run")
      [] status = "PENDING" -> Some("")
      [] OTHER              -> None

StepFinished(testStepId, status) ==
    [testStepId |-> testStepId, testCaseStartedId |-> "cs1",
     testStepResult |-> [status   |-> status,
                         duration |-> [seconds |-> 1],
                         message  |-> StepMessage(status)],
     timestamp |-> Timestamp(11)]


Document == [uri |-> "login.feature"]

\* the Link[] objects the callers of addLinks hold
Link(url) == [url |-> url]

CallerLists == ("L1" :> <<Link("https://issues/1")>>) @@ ("L2" :> <<Link("https://issues/2")>>)

ListRefs == DOMAIN CallerLists

MessageInputs == {"a", "b"}

AttachmentInputs == {"f1", "f2"}

----------------------------------------------------------------------------
(* Storage: construction and ingestion.                                    *)

Init ==
    /\ gherkinDocuments = <<>>
    /\ pickles = <<>>
    /\ testCases = <<>>
    /\ testCasesStarted = <<>>
    /\ testCasesFinished = <<>>
    /\ testStepsStarted = <<>>
    /\ testStepsFinished = <<>>
    /\ messages = <<>>
    /\ resultLinks = <<>>
    /\ attachments = <<>>
    /\ heap = CallerLists
    /\ addedMessages = [c \in CaseIds |-> <<>>]
    /\ addedLinks = [c \in CaseIds |-> <<>>]
    /\ addedAttachments = [c \in CaseIds |-> <<>>]
    /\ arrival = [recorded |-> FALSE, order |-> <<>>]
    /\ ret = Void

\* the history of the save calls, kept where a specification records it
Arrive(kind, message) ==
    IF arrival.recorded
    THEN [arrival EXCEPT !.order = Append(@, <<kind, message>>)]
    ELSE arrival

saveGherkinDocument(document) ==
    /\ gherkinDocuments' = Append(gherkinDocuments, document)
    /\ arrival' = Arrive("gherkinDocument", document)
    /\ ret' = Void
    /\ UNCHANGED <<pickles, testCases, testCasesStarted, testCasesFinished,
                   testStepsStarted, testStepsFinished, accumulators, history>>

savePickle(pickle) ==
    /\ pickles' = Append(pickles, pickle)
    /\ arrival' = Arrive("pickle", pickle)
    /\ ret' = Void
    /\ UNCHANGED <<gherkinDocuments, testCases, testCasesStarted, testCasesFinished,
                   testStepsStarted, testStepsFinished, accumulators, history>>

saveTestCase(testCase) ==
    /\ testCases' = Append(testCases, testCase)
    /\ arrival' = Arrive("testCase", testCase)
    /\ ret' = Void
    /\ UNCHANGED <<gherkinDocuments, pickles, testCasesStarted, testCasesFinished,
                   testStepsStarted, testStepsFinished, accumulators, history>>

saveTestCaseStarted(testCaseStarted) ==
    /\ testCasesStarted' = Append(testCasesStarted, testCaseStarted)
    /\ arrival' = Arrive("testCaseStarted", testCaseStarted)
    /\ ret' = Void
    /\ UNCHANGED <<gherkinDocuments, pickles, testCases, testCasesFinished,
                   testStepsStarted, testStepsFinished, accumulators, history>>

saveTestCaseFinished(testCaseFinished) ==
    /\ testCasesFinished' = Append(testCasesFinished, testCaseFinished)
    /\ arrival' = Arrive("testCaseFinished", testCaseFinished)
    /\ ret' = Void
    /\ UNCHANGED <<gherkinDocuments, pickles, testCases, testCasesStarted,
                   testStepsStarted, testStepsFinished, accumulators, history>>

saveTestStepStarted(testStepStarted) ==
    /\ testStepsStarted' = Append(testStepsStarted, testStepStarted)
    /\ arrival' = Arrive("testStepStarted", testStepStarted)
    /\ ret' = Void
    /\ UNCHANGED <<gherkinDocuments, pickles, testCases, testCasesStarted,
                   testCasesFinished, testStepsFinished, accumulators, history>>

\* saveTestStepFinished putting the message in front (unshift for push)
saveTestStepFinishedFront(testStepFinished) ==
    /\ testStepsFinished' = <<testStepFinished>> \o testStepsFinished
    /\ arrival' = Arrive("testStepFinished", testStepFinished)
    /\ ret' = Void
    /\ UNCHANGED <<gherkinDocuments, pickles, testCases, testCasesStarted,
                   testCasesFinished, testStepsStarted, accumulators, history>>

saveTestStepFinished(testStepFinished) ==
    /\ testStepsFinished' = Append(testStepsFinished, testStepFinished)
    /\ arrival' = Arrive("testStepFinished", testStepFinished)
    /\ ret' = Void
    /\ UNCHANGED <<gherkinDocuments, pickles, testCases, testCasesStarted,
                   testCasesFinished, testStepsStarted, accumulators, history>>

----------------------------------------------------------------------------
(* Storage: the calls of the queries.                                      *)

Returned(op, arg, result) == [op |-> op, arg |-> arg, result |-> result]

\* getTestResult consuming the messages of the case it assembles
GetTestResultCallConsuming(testId) ==
    /\ ret' = Returned("getTestResult", testId, getTestResult(testId))
    /\ messages' = [c \in DOMAIN messages \ {testId} |-> messages[c]]
    /\ UNCHANGED <<store, resultLinks, attachments, heap, history, arrival>>

GetTestResultCall(testId) ==
    /\ ret' = Returned("getTestResult", testId, getTestResult(testId))
    /\ UNCHANGED <<store, accumulators, history, arrival>>

IsResolvedTestCaseCall(testCase) ==
    /\ ret' = Returned("isResolvedTestCase", testCase, isResolvedTestCase(testCase))
    /\ UNCHANGED <<store, accumulators, history, arrival>>

GetAttachmentsCall(testCaseId) ==
    /\ ret' = Returned("getAttachments", testCaseId, getAttachments(testCaseId))
    /\ UNCHANGED <<store, accumulators, history, arrival>>

----------------------------------------------------------------------------
(* Storage: accumulators.                                                  *)

\* addMessage storing a new list on every call
addMessageOverwrite(testCaseId, message) ==
    /\ messages' = (testCaseId :> <<message>>) @@ messages
    /\ addedMessages' = [addedMessages EXCEPT ![testCaseId] = Append(@, message)]
    /\ ret' = Void
    /\ UNCHANGED <<store, resultLinks, attachments, heap, addedLinks, addedAttachments,
                   arrival>>

addMessage(testCaseId, message) ==
    /\ messages' = IF testCaseId \notin DOMAIN messages
                   THEN (testCaseId :> <<message>>) @@ messages
                   ELSE [messages EXCEPT ![testCaseId] = Append(@, message)]
    /\ addedMessages' = [addedMessages EXCEPT ![testCaseId] = Append(@, message)]
    /\ ret' = Void
    /\ UNCHANGED <<store, resultLinks, attachments, heap, addedLinks, addedAttachments,
                   arrival>>

\* addLinks storing the caller's list on every call
addLinksReplace(testCaseId, links) ==
    /\ resultLinks' = (testCaseId :> links) @@ resultLinks
    /\ heap' = heap
    /\ addedLinks' = [addedLinks EXCEPT ![testCaseId] = Append(@, links)]
    /\ ret' = Void
    /\ UNCHANGED <<store, messages, attachments, addedMessages, addedAttachments,
                   arrival>>

\* links is the reference of the caller's list: the first call for a case
\* stores the list itself, a later one pushes the elements onto the stored list
addLinks(testCaseId, links) ==
    /\ IF testCaseId \notin DOMAIN resultLinks
       THEN /\ resultLinks' = (testCaseId :> links) @@ resultLinks
            /\ heap' = heap
       ELSE /\ heap' = [heap EXCEPT ![resultLinks[testCaseId]] = @ \o heap[links]]
            /\ resultLinks' = resultLinks
    /\ addedLinks' = [addedLinks EXCEPT ![testCaseId] = Append(@, links)]
    /\ ret' = Void
    /\ UNCHANGED <<store, messages, attachments, addedMessages, addedAttachments,
                   arrival>>

\* concat returns a new array, which the second branch drops
addAttachment(testCaseId, attachmentId) ==
    /\ LET attachment == [id |-> attachmentId]
       IN  attachments' = IF testCaseId \notin DOMAIN attachments
                          THEN (testCaseId :> <<attachment>>) @@ attachments
                          ELSE attachments
    /\ addedAttachments' = [addedAttachments EXCEPT ![testCaseId] = Append(@, attachmentId)]
    /\ ret' = Void
    /\ UNCHANGED <<store, messages, resultLinks, heap, addedMessages, addedLinks,
                   arrival>>

----------------------------------------------------------------------------
(* Runs.  The runner emits the messages of each kind in a fixed order, and *)
(* the kinds reach the store in any order.  A run gives, per kind, the     *)
(* messages in emission order: each position holds the alternatives the    *)
(* runner can emit there.                                                  *)

\* what the runner emits next of a kind, given what the store holds of it
Upcoming(emission, arr) ==
    IF Len(arr) < Len(emission) THEN emission[Len(arr) + 1] ELSE {}

\* the feature with both scenarios, Login first
RunBoth ==
    [documents         |-> <<{Document}>>,
     pickles           |-> <<{PickleLogin, PickleLoginUntagged}, {PickleDraft}>>,
     testCases         |-> <<{CaseLogin, CaseLoginShort}, {CaseDraft}>>,
     testCasesStarted  |-> <<{StartedLogin}, {StartedDraft}>>,
     testCasesFinished |-> <<{FinishedLogin}, {FinishedDraft}>>,
     testStepsStarted  |-> <<{StepStarted(11)}, {StepStarted(12)}>>,
     testStepsFinished |-> <<{StepFinished(11, status) : status \in Statuses},
                             {StepFinished(12, status) : status \in Statuses}>>]

\* scenario Draft alone: it has no steps
RunDraft ==
    [pickles           |-> <<{PickleDraft}>>,
     testCases         |-> <<{CaseDraft}>>,
     testCasesStarted  |-> <<{StartedDraft}>>,
     testCasesFinished |-> <<{FinishedDraft}>>]

\* the messages about a scenario and its case
IngestCases(run) ==
    \/ \E pickle \in Upcoming(run.pickles, pickles) :
          savePickle(pickle)
    \/ \E testCase \in Upcoming(run.testCases, testCases) :
          saveTestCase(testCase)
    \/ \E started \in Upcoming(run.testCasesStarted, testCasesStarted) :
          saveTestCaseStarted(started)
    \/ \E finished \in Upcoming(run.testCasesFinished, testCasesFinished) :
          saveTestCaseFinished(finished)

\* the documents and the messages about the steps
IngestSteps(run) ==
    \/ \E document \in Upcoming(run.documents, gherkinDocuments) :
          saveGherkinDocument(document)
    \/ \E started \in Upcoming(run.testStepsStarted, testStepsStarted) :
          saveTestStepStarted(started)
    \/ \E finished \in Upcoming(run.testStepsFinished, testStepsFinished) :
          saveTestStepFinished(finished)

Ingest(run) == IngestCases(run) \/ IngestSteps(run)

\* accumulator calls made so far
AccCalls ==
    LET Calls(h) == Len(h["c1"]) + Len(h["c2"])
    IN  Calls(addedMessages) + Calls(addedLinks) + Calls(addedAttachments)

Accumulate ==
    /\ AccCalls < MaxAccCalls
    /\ \/ \E testCaseId \in CaseIds, message \in MessageInputs :
             addMessage(testCaseId, message)
       \/ \E testCaseId \in CaseIds, links \in ListRefs :
             addLinks(testCaseId, links)
       \/ \E testCaseId \in CaseIds, attachmentId \in AttachmentInputs :
             addAttachment(testCaseId, attachmentId)

----------------------------------------------------------------------------
(* Spec: the run of both scenarios, queried at any time.                   *)

Next ==
    \/ Ingest(RunBoth)
    \/ \E testId \in CaseIds : GetTestResultCall(testId)
    \/ \E testCase \in CaseInputs : IsResolvedTestCaseCall(testCase)

Spec == Init /\ [][Next]_vars

----------------------------------------------------------------------------
(* SpecAcc: the run of scenario Draft, with the hooks' accumulator calls   *)
(* for it and for another case id, queried at any time.                    *)

NextAcc ==
    \/ IngestCases(RunDraft)
    \/ Accumulate
    \/ \E testId \in CaseIds : GetTestResultCall(testId)
    \/ \E testCase \in CaseInputs : IsResolvedTestCaseCall(testCase)
    \/ \E testCaseId \in CaseIds : GetAttachmentsCall(testCaseId)

SpecAcc == Init /\ [][NextAcc]_vars

----------------------------------------------------------------------------
(* SpecSteps: the result of a finished case of one scenario of up to       *)
(* MaxSteps steps, for every sequence of step statuses.                    *)

PickleLong(n) ==
    [id |-> "p1", name |-> "Long",
     steps |-> [i \in 1..n |-> [id |-> i, text |-> "step " \o ToString(i)]],
     tags |-> <<Tag("ExternalId", "E1")>>]

CaseLong(n) ==
    [id |-> "c1", pickleId |-> "p1",
     testSteps |-> [i \in 1..n |-> [id |-> 10 + i, pickleStepId |-> i]]]

InitSteps ==
    \E n \in 0..MaxSteps : \E statuses \in [1..n -> Statuses] :
        /\ gherkinDocuments = <<Document>>
        /\ pickles = <<PickleLong(n)>>
        /\ testCases = <<CaseLong(n)>>
        /\ testCasesStarted = <<StartedLogin>>
        /\ testCasesFinished = <<FinishedLogin>>
        /\ testStepsStarted = [i \in 1..n |-> StepStarted(10 + i)]
        /\ testStepsFinished = [i \in 1..n |-> StepFinished(10 + i, statuses[i])]
        /\ messages = <<>>
        /\ resultLinks = <<>>
        /\ attachments = <<>>
        /\ heap = CallerLists
        /\ addedMessages = [c \in CaseIds |-> <<>>]
        /\ addedLinks = [c \in CaseIds |-> <<>>]
        /\ addedAttachments = [c \in CaseIds |-> <<>>]
        /\ arrival = [recorded |-> FALSE, order |-> <<>>]
        /\ ret = Void

NextSteps == GetTestResultCall("c1")

SpecSteps == InitSteps /\ [][NextSteps]_vars

----------------------------------------------------------------------------
(* SpecOrder: the run of scenario Login after a hook's message for its     *)
(* case, with the order of the save calls recorded, queried at any time.   *)

RunLogin ==
    [pickles           |-> <<{PickleLogin}>>,
     testCases         |-> <<{CaseLogin}>>,
     testCasesStarted  |-> <<{StartedLogin}>>,
     testCasesFinished |-> <<{FinishedLogin}>>,
     testStepsStarted  |-> <<{StepStarted(11)}, {StepStarted(12)}>>,
     testStepsFinished |-> <<{StepFinished(11, "PASSED"), StepFinished(11, "FAILED")},
                             {StepFinished(12, "PASSED"), StepFinished(12, "SKIPPED")}>>]

InitOrder ==
    /\ gherkinDocuments = <<>>
    /\ pickles = <<>>
    /\ testCases = <<>>
    /\ testCasesStarted = <<>>
    /\ testCasesFinished = <<>>
    /\ testStepsStarted = <<>>
    /\ testStepsFinished = <<>>
    /\ messages = ("c1" :> <<"a">>)
    /\ resultLinks = <<>>
    /\ attachments = <<>>
    /\ heap = CallerLists
    /\ addedMessages = [c \in CaseIds |-> IF c = "c1" THEN <<"a">> ELSE <<>>]
    /\ addedLinks = [c \in CaseIds |-> <<>>]
    /\ addedAttachments = [c \in CaseIds |-> <<>>]
    /\ arrival = [recorded |-> TRUE, order |-> <<>>]
    /\ ret = Void

NextOrder ==
    \/ IngestCases(RunLogin)
    \/ \E started \in Upcoming(RunLogin.testStepsStarted, testStepsStarted) :
          saveTestStepStarted(started)
    \/ \E finished \in Upcoming(RunLogin.testStepsFinished, testStepsFinished) :
          saveTestStepFinished(finished)
    \/ GetTestResultCall("c1")

SpecOrder == InitOrder /\ [][NextOrder]_vars

----------------------------------------------------------------------------
(* SpecDup: the complete run of scenario Login, after which up to          *)
(* MaxDuplicates messages about it are saved again (the same record, or    *)
(* another record with the same key), queried at any time.                 *)

\* the messages a producer may send again about scenario Login
Resent ==
    [pickles           |-> {PickleLogin, PickleLoginUntagged},
     testCases         |-> {CaseLogin, CaseLoginShort},
     testCasesStarted  |-> {StartedLogin},
     testCasesFinished |-> {FinishedLogin},
     testStepsStarted  |-> {StepStarted(11), StepStarted(12)},
     testStepsFinished |-> {StepFinished(id, status) :
                                id \in {11, 12}, status \in {"PASSED", "FAILED"}}]

InitDup ==
    /\ gherkinDocuments = <<>>
    /\ \E pickle \in Resent.pickles : pickles = <<pickle>>
    /\ testCases = <<CaseLogin>>
    /\ testCasesStarted = <<StartedLogin>>
    /\ testCasesFinished = <<FinishedLogin>>
    /\ testStepsStarted = <<StepStarted(11), StepStarted(12)>>
    /\ \E first, second \in {"PASSED", "FAILED"} :
          testStepsFinished = <<StepFinished(11, first), StepFinished(12, second)>>
    /\ messages = <<>>
    /\ resultLinks = <<>>
    /\ attachments = <<>>
    /\ heap = CallerLists
    /\ addedMessages = [c \in CaseIds |-> <<>>]
    /\ addedLinks = [c \in CaseIds |-> <<>>]
    /\ addedAttachments = [c \in CaseIds |-> <<>>]
    /\ arrival = [recorded |-> FALSE, order |-> <<>>]
    /\ ret = Void

\* the messages saved after the complete run
Duplicates ==
    Len(pickles) + Len(testCases) + Len(testCasesStarted) + Len(testCasesFinished)
        + Len(testStepsStarted) + Len(testStepsFinished) - 8

SaveAgain ==
    /\ Duplicates < MaxDuplicates
    /\ \/ \E pickle \in Resent.pickles : savePickle(pickle)
       \/ \E testCase \in Resent.testCases : saveTestCase(testCase)
       \/ \E started \in Resent.testCasesStarted : saveTestCaseStarted(started)
       \/ \E finished \in Resent.testCasesFinished : saveTestCaseFinished(finished)
       \/ \E started \in Resent.testStepsStarted : saveTestStepStarted(started)
       \/ \E finished \in Resent.testStepsFinished : saveTestStepFinished(finished)

NextDup ==
    \/ SaveAgain
    \/ GetTestResultCall("c1")
    \/ \E testCase \in Resent.testCases : IsResolvedTestCaseCall(testCase)

SpecDup == InitDup /\ [][NextDup]_vars

----------------------------------------------------------------------------
(* Properties.                                                             *)

\* the smallest element of a non-empty set of numbers
Min(S) == CHOOSE i \in S : \A j \in S : i <= j

\* the ids getTestResult is asked for: those of the cases and one no case has
TestIds == CaseIds \cup {"c0"}

\* the positions of the stored cases of that id
StoredCases(testId) == {i \in 1..Len(testCases) : testCases[i].id = testId}

\* the positions of the stored pickles of that id
StoredPickles(pickleId) == {i \in 1..Len(pickles) : pickles[i].id = pickleId}

\* C1: a result of getTestResult(caseId) takes its lifecycle markers from the
\* queried case: some stored CaseStarted belongs to the case, some stored
\* CaseFinished references it, the duration is the difference of their seconds
\* and startedOn/completedOn are mapped from the same two timestamps.
C1_LifecycleOfQueriedCase ==
    \A testId \in TestIds :
        LET r == getTestResult(testId)
        IN  r.kind = "ok" =>
            \E i \in 1..Len(testCasesStarted), j \in 1..Len(testCasesFinished) :
                LET started == testCasesStarted[i]
                    finished == testCasesFinished[j]
                IN  /\ started.testCaseId = testId
                    /\ finished.testCaseStartedId = started.id
                    /\ r.value.duration =
                           finished.timestamp.seconds - started.timestamp.seconds
                    /\ r.value.startedOn = mapDate(started.timestamp.seconds)
                    /\ r.value.completedOn = mapDate(finished.timestamp.seconds)

\* the outcomes of the steps of the stored case before the filter, in
\* pickle-step order (SpecSteps stores the StepFinished records in that order)
RawOutcomes ==
    [i \in 1..Len(testStepsFinished) |->
        mapStatus(testStepsFinished[i].testStepResult.status)]

OutcomesOf(stepResults) == [i \in 1..Len(stepResults) |-> stepResults[i].outcome]

\* C2: a step result is dropped from stepResults iff its outcome is Skipped and
\* the step right before it in the unfiltered sequence is Failed or Skipped; the
\* first step is never dropped; [Passed, Failed, Skipped, Skipped, Passed,
\* Skipped] filters to [Passed, Failed, Passed, Skipped].
C2_CascadingSkipFilter ==
    (ret.op = "getTestResult" /\ ret.result.kind = "ok") =>
        LET out == RawOutcomes
            n == Len(out)
            Dropped(i) == /\ out[i] = "Skipped"
                          /\ i > 1
                          /\ out[i - 1] \in {"Failed", "Skipped"}
            kept == {i \in 1..n : ~ Dropped(i)}
            Rank(i) == Cardinality({j \in kept : j <= i})
            res == ret.result.value.stepResults
        IN  /\ Len(res) = Cardinality(kept)
            /\ \A i \in kept : /\ res[Rank(i)].title = pickles[1].steps[i].text
                               /\ res[Rank(i)].outcome = out[i]
            /\ n >= 1 => res[1].title = pickles[1].steps[1].text
            /\ out = <<"Passed", "Failed", "Skipped", "Skipped", "Passed", "Skipped">>
                  => OutcomesOf(res) = <<"Passed", "Failed", "Passed", "Skipped">>

\* the example of C2 was queried and gave the four results
C2_Witness ==
    /\ ret.op = "getTestResult"
    /\ ret.result.kind = "ok"
    /\ RawOutcomes = <<"Passed", "Failed", "Skipped", "Skipped", "Passed", "Skipped">>
    /\ OutcomesOf(ret.result.value.stepResults) = <<"Passed", "Failed", "Passed", "Skipped">>

\* C3: getTestResult(id) for an id no stored case has throws 'TestCase not
\* found', whatever else is stored.
C3_UnknownCaseNotFound ==
    \A testId \in TestIds :
        StoredCases(testId) = {} => getTestResult(testId) = Error("TestCase not found")

\* an unknown id was queried while another case, both pickles and lifecycle
\* records of both cases were stored
C3_Witness ==
    /\ ret.op = "getTestResult"
    /\ ret.arg = "c2"
    /\ ret.result = Error("TestCase not found")
    /\ Len(testCases) = 1
    /\ Len(pickles) = 2
    /\ Len(testCasesStarted) = 2
    /\ Len(testCasesFinished) = 2

\* C4: getTestResult of a stored case whose pickle is stored and whose tags
\* yield no external id throws 'External ID is not provided'.
C4_MissingExternalId ==
    \A testId \in TestIds :
        StoredCases(testId) # {} =>
            LET testCase == testCases[Min(StoredCases(testId))]
                found == StoredPickles(testCase.pickleId)
            IN  (found # {} /\ parseTags(pickles[Min(found)].tags).externalId = None)
                    => getTestResult(testId) = Error("External ID is not provided")

\* the case of the untagged Login was queried with all its lifecycle and step
\* records stored
C4_Witness ==
    /\ ret.op = "getTestResult"
    /\ ret.arg = "c1"
    /\ ret.result = Error("External ID is not provided")
    /\ testCases[1] = CaseLogin
    /\ Len(testCasesStarted) = 2
    /\ Len(testCasesFinished) = 2
    /\ Len(testStepsStarted) = 2
    /\ Len(testStepsFinished) = 2

\* C5: isResolvedTestCase(case) is true iff a pickle of the id case.pickleId is
\* stored and its tags yield an external id, whatever the tags of the pickles of
\* other ids.
C5_ResolvedIffExternalId ==
    \A testCase \in CaseInputs :
        isResolvedTestCase(testCase) <=>
            \E i \in StoredPickles(testCase.pickleId) :
                parseTags(pickles[i].tags).externalId # None

\* the case of the untagged Login was found unresolved while the tagged Draft
\* was stored
C5_Witness ==
    /\ ret.op = "isResolvedTestCase"
    /\ ret.arg = CaseLogin
    /\ ret.result = FALSE
    /\ pickles = <<PickleLoginUntagged, PickleDraft>>

\* C6: after n >= 2 calls of addAttachment for a case id, getAttachments of
\* it returns n attachment references, one per call, in call order.
C6_EveryAttachmentKept ==
    \A testCaseId \in CaseIds :
        Len(addedAttachments[testCaseId]) >= 2 =>
            getAttachments(testCaseId) =
                Some([i \in 1..Len(addedAttachments[testCaseId]) |->
                         [id |-> addedAttachments[testCaseId][i]]])

\* the texts, each after the first preceded by a double line break, appended
\* to acc from left to right
RECURSIVE AppendTexts(_, _)
AppendTexts(acc, texts) ==
    IF texts = <<>> THEN acc
    ELSE AppendTexts(acc \o "\n\n" \o Head(texts), Tail(texts))

\* C7: the message of getTestResult(caseId) is the texts passed to addMessage
\* for that case id, in call order, joined with a double line break ("a" then
\* "b" give "a\n\nb"); the texts added for other case ids are not in it.
C7_MessageJoined ==
    \A testId \in CaseIds :
        LET r == getTestResult(testId)
            texts == addedMessages[testId]
        IN  r.kind = "ok" =>
                /\ r.value.message = IF texts = <<>> THEN None
                                     ELSE Some(AppendTexts(Head(texts), Tail(texts)))
                /\ texts = <<"a", "b">> => r.value.message = Some("a\n\nb")

\* "a" then "b" were added for Draft's case and a text for the other case id,
\* and the result of Draft's case was queried
C7_Witness ==
    /\ ret.op = "getTestResult"
    /\ ret.arg = "c2"
    /\ ret.result.kind = "ok"
    /\ ret.result.value.message = Some("a\n\nb")
    /\ addedMessages["c2"] = <<"a", "b">>
    /\ addedMessages["c1"] # <<>>

IsPrefix(s, t) == Len(s) <= Len(t) /\ SubSeq(t, 1, Len(s)) = s

\* C8: in every step of the store, each stored sequence of messages, of result
\* links and of attachments is a prefix of the one stored after the step, and a
\* key that is present stays present.
C8_AppendOnly ==
    [][\A testCaseId \in CaseIds :
          /\ testCaseId \in DOMAIN messages =>
                /\ testCaseId \in DOMAIN messages'
                /\ IsPrefix(messages[testCaseId], messages'[testCaseId])
          /\ testCaseId \in DOMAIN resultLinks =>
                /\ testCaseId \in DOMAIN resultLinks'
                /\ IsPrefix(heap[resultLinks[testCaseId]],
                            heap'[resultLinks'[testCaseId]])
          /\ testCaseId \in DOMAIN attachments =>
                /\ testCaseId \in DOMAIN attachments'
                /\ IsPrefix(attachments[testCaseId], attachments'[testCaseId])
      ]_vars

\* a case id got links by two calls of addLinks and a message
C8_Witness ==
    /\ "c2" \in DOMAIN resultLinks
    /\ Len(addedLinks["c2"]) = 2
    /\ Len(heap[resultLinks["c2"]]) = 2
    /\ "c2" \in DOMAIN messages

\* the errors getTestResult throws before it resolves the steps
EarlierErrors ==
    {"TestCase not found", "Pickle not found", "External ID is not provided",
     "TestCaseStarted not found", "TestCaseFinished not found"}

\* what the chain of a pickle step lacks: the error of the first missing
\* record, "none" when the chain is whole
MissingLink(pickleStep, testCase) ==
    LET testSteps == {k \in 1..Len(testCase.testSteps) :
                         testCase.testSteps[k].pickleStepId = pickleStep.id}
    IN  IF testSteps = {} THEN "TestCase step not found"
        ELSE LET testStepId == testCase.testSteps[Min(testSteps)].id
             IN  IF \A k \in 1..Len(testStepsStarted) :
                        testStepsStarted[k].testStepId # testStepId
                 THEN "TestStepStarted not found"
                 ELSE IF \A k \in 1..Len(testStepsFinished) :
                             testStepsFinished[k].testStepId # testStepId
                      THEN "TestStepFinished not found"
                      ELSE "none"

\* C9: when getTestResult gets as far as the steps, it returns a result only
\* if every step of the case's pickle has its test step, StepStarted and
\* StepFinished; otherwise it throws the not-found error of a missing record.
C9_AllOrNothing ==
    \A testId \in TestIds :
        LET r == getTestResult(testId)
        IN  \/ r.kind = "error" /\ r.error \in EarlierErrors
            \/ LET testCase == testCases[Min(StoredCases(testId))]
                   pickle == pickles[Min(StoredPickles(testCase.pickleId))]
                   missing == {MissingLink(pickle.steps[i], testCase) :
                                  i \in 1..Len(pickle.steps)} \ {"none"}
               IN  IF missing = {} THEN r.kind = "ok"
                   ELSE r.kind = "error" /\ r.error \in missing

\* Login's case was queried when only the StepFinished of its second step
\* was missing
C9_Witness ==
    /\ ret.op = "getTestResult"
    /\ ret.arg = "c1"
    /\ ret.result = Error("TestStepFinished not found")
    /\ testCases[1] = CaseLogin
    /\ Len(testStepsStarted) = 2
    /\ Len(testStepsFinished) = 1

\* C10: for a stored case with an external id, getTestResult throws
\* 'TestCaseStarted not found' when no CaseStarted of the case is stored and
\* 'TestCaseFinished not found' when no CaseFinished references the case's
\* CaseStarted, also when records of other cases are stored.
C10_LifecycleNotFound ==
    \A testId \in TestIds :
        LET r == getTestResult(testId)
            started == {i \in 1..Len(testCasesStarted) :
                           testCasesStarted[i].testCaseId = testId}
            finished == {j \in 1..Len(testCasesFinished) :
                            \E i \in started :
                                testCasesFinished[j].testCaseStartedId
                                    = testCasesStarted[i].id}
        IN  (/\ StoredCases(testId) # {}
             /\ isResolvedTestCase(testCases[Min(StoredCases(testId))]))
            => /\ started = {} => r = Error("TestCaseStarted not found")
               /\ (started # {} /\ finished = {})
                     => r = Error("TestCaseFinished not found")

\* the messages of a kind in the order of their save calls
Arrived(kind) ==
    LET OfKind(a) == a[1] = kind
        calls == SelectSeq(arrival.order, OfKind)
    IN  [i \in 1..Len(calls) |-> calls[i][2]]

\* C11: whatever the interleaving of the save calls across the kinds, the
\* store holds of each kind the messages in the order of that kind's calls, and
\* a result of getTestResult is the one the store's contents give: runs with
\* the same sequence per kind end in the same store and the same outcome.
C11_ArrivalOrderIndependent ==
    /\ gherkinDocuments = Arrived("gherkinDocument")
    /\ pickles = Arrived("pickle")
    /\ testCases = Arrived("testCase")
    /\ testCasesStarted = Arrived("testCaseStarted")
    /\ testCasesFinished = Arrived("testCaseFinished")
    /\ testStepsStarted = Arrived("testStepStarted")
    /\ testStepsFinished = Arrived("testStepFinished")
    /\ ret.op = "getTestResult" => ret.result = getTestResult(ret.arg)

\* all eight messages were saved in the reverse of the emission order of the
\* kinds (a StepFinished first, CaseFinished before CaseStarted, the pickle
\* last), and Login's case gave a result with the hook's message
C11_Witness ==
    /\ Len(arrival.order) = 8
    /\ arrival.order[1][1] = "testStepFinished"
    /\ arrival.order[3][1] = "testCaseFinished"
    /\ arrival.order[4][1] = "testStepStarted"
    /\ arrival.order[6][1] = "testCaseStarted"
    /\ arrival.order[7][1] = "testCase"
    /\ arrival.order[8][1] = "pickle"
    /\ ret.op = "getTestResult"
    /\ ret.result.kind = "ok"
    /\ ret.result.value.message = Some("a")
    /\ Len(ret.result.value.stepResults) = 2

\* the stored records of a kind about a test step
RecordsOf(arr, testStepId) == {i \in 1..Len(arr) : arr[i].testStepId = testStepId}

\* a test step of a stored case of that id has more than one StepStarted or
\* more than one StepFinished record
ExactlyOneViolated(testId) ==
    \E c \in StoredCases(testId) :
        \E s \in 1..Len(testCases[c].testSteps) :
            LET testStepId == testCases[c].testSteps[s].id
            IN  \/ Cardinality(RecordsOf(testStepsStarted, testStepId)) > 1
                \/ Cardinality(RecordsOf(testStepsFinished, testStepId)) > 1

\* C12: the save calls accept a record whose key is stored already (they have
\* no precondition), and when a test step of a case has more than one
\* StepStarted or more than one StepFinished record, getTestResult for the
\* case raises an error instead of returning a result.
C12_DuplicatesSurfaceAsError ==
    (ret.op = "getTestResult" /\ ExactlyOneViolated(ret.arg))
        => ret.result.kind = "error"

\* the two errors of getTestResult about the pickle of the case
PickleErrors == {Error("Pickle not found"), Error("External ID is not provided")}

\* C15: for every stored case, isResolvedTestCase and getTestResult agree, also
\* when several stored pickles share the pickle id: after true, getTestResult
\* fails neither with 'Pickle not found' nor with 'External ID is not
\* provided'; after false, it fails with one of the two.
C15_ResolutionAgreesWithAssembly ==
    \A c \in 1..Len(testCases) :
        IF isResolvedTestCase(testCases[c])
        THEN getTestResult(testCases[c].id) \notin PickleErrors
        ELSE getTestResult(testCases[c].id) \in PickleErrors

\* the step results of the stored case of SpecSteps before the filter: each
\* pickle step's title with the outcome of its StepFinished record
Unfiltered ==
    [i \in 1..Len(pickles[1].steps) |->
        [title |-> pickles[1].steps[i].text, outcome |-> RawOutcomes[i]]]

TitleAndOutcome(stepResults) ==
    [i \in 1..Len(stepResults) |->
        [title |-> stepResults[i].title, outcome |-> stepResults[i].outcome]]

\* one pass from left to right that compares a Skipped result with the last
\* result retained so far
RECURSIVE RetainFrom(_, _, _)
RetainFrom(arr, i, retained) ==
    IF i > Len(arr) THEN retained
    ELSE IF /\ arr[i].outcome = "Skipped"
            /\ retained # <<>>
            /\ retained[Len(retained)].outcome \in {"Failed", "Skipped"}
         THEN RetainFrom(arr, i + 1, retained)
         ELSE RetainFrom(arr, i + 1, Append(retained, arr[i]))

\* C13: the filter of the code, which compares a Skipped result with its
\* predecessor in the unfiltered sequence, gives for every sequence of step
\* outcomes the same step results as one left-to-right pass that compares a
\* Skipped result with the last result retained so far.
C13_RawPredecessorIsLastRetained ==
    (ret.op = "getTestResult" /\ ret.result.kind = "ok") =>
        TitleAndOutcome(ret.result.value.stepResults) = RetainFrom(Unfiltered, 1, <<>>)

\* a result was given for a sequence where the predecessor of a Skipped step
\* is not the last retained one: three Skipped steps follow a Failed one
C13_Witness ==
    /\ ret.op = "getTestResult"
    /\ ret.result.kind = "ok"
    /\ RawOutcomes = <<"Passed", "Failed", "Skipped", "Skipped", "Skipped", "Passed">>
    /\ OutcomesOf(ret.result.value.stepResults) = <<"Passed", "Failed", "Passed">>

\* the step results of a sequence whose outcome is one of keep, in order
RECURSIVE Select(_, _)
Select(arr, keep) ==
    IF arr = <<>> THEN <<>>
    ELSE (IF Head(arr).outcome \in keep THEN <<Head(arr)>> ELSE <<>>)
         \o Select(Tail(arr), keep)

\* the maximal runs of consecutive Skipped steps, as pairs of first and last
\* position in the unfiltered sequence
SkippedRuns ==
    LET out == RawOutcomes
        n == Len(out)
    IN  {run \in (1..n) \X (1..n) :
            /\ run[1] <= run[2]
            /\ \A i \in run[1]..run[2] : out[i] = "Skipped"
            /\ run[1] > 1 => out[run[1] - 1] # "Skipped"
            /\ run[2] < n => out[run[2] + 1] # "Skipped"}

\* C14: in every result of getTestResult, stepResults (a) holds every step
\* result whose outcome is not Skipped, in pickle-step order, (b) never holds a
\* Skipped result right after a Failed or a Skipped one, and (c) holds exactly
\* one Skipped result of each maximal run of consecutive Skipped steps that
\* starts the sequence or follows a step neither Failed nor Skipped, and none
\* of a run that follows a Failed step.
C14_SkipBoundaries ==
    (ret.op = "getTestResult" /\ ret.result.kind = "ok") =>
        LET res == TitleAndOutcome(ret.result.value.stepResults)
            others == {"Passed", "Failed", "Blocked"}
            OfRun(run) == {i \in 1..Len(res) :
                              \E j \in run[1]..run[2] : res[i] = Unfiltered[j]}
        IN  /\ Select(res, others) = Select(Unfiltered, others)
            /\ \A i \in 2..Len(res) :
                   res[i].outcome = "Skipped" => res[i - 1].outcome \notin {"Failed", "Skipped"}
            /\ \A run \in SkippedRuns :
                   Cardinality(OfRun(run)) =
                       IF run[1] > 1 /\ RawOutcomes[run[1] - 1] = "Failed" THEN 0 ELSE 1
            /\ Len(Select(res, {"Skipped"})) =
                   Cardinality({run \in SkippedRuns :
                                   run[1] = 1 \/ RawOutcomes[run[1] - 1] # "Failed"})

\* a result was given for a sequence with a run of Skipped steps at the start,
\* one after a Passed step and one after a Failed step
C14_Witness ==
    /\ ret.op = "getTestResult"
    /\ ret.result.kind = "ok"
    /\ RawOutcomes = <<"Skipped", "Skipped", "Passed", "Skipped", "Failed", "Skipped">>
    /\ OutcomesOf(ret.result.value.stepResults) = <<"Skipped", "Passed", "Skipped", "Failed">>

\* what the store holds for a case id: its messages, the contents of its
\* result-links list and its attachments
Accumulated(testCaseId) ==
    [messages    |-> IF testCaseId \in DOMAIN messages
                     THEN Some(messages[testCaseId]) ELSE None,
     resultLinks |-> IF testCaseId \in DOMAIN resultLinks
                     THEN Some(heap[resultLinks[testCaseId]]) ELSE None,
     attachments |-> getAttachments(testCaseId)]

\* C16: an accumulator call for a case id leaves what the store holds for
\* every other case id unchanged, and leaves the other two kinds of the case id
\* itself unchanged; also when the caller passed one links list to addLinks
\* for two case ids.
C16_IsolatedPerCase ==
    [][\A testCaseId \in CaseIds :
          LET message == addedMessages'[testCaseId] # addedMessages[testCaseId]
              links == addedLinks'[testCaseId] # addedLinks[testCaseId]
              attachment == addedAttachments'[testCaseId] # addedAttachments[testCaseId]
          IN  (message \/ links \/ attachment) =>
                  /\ \A other \in CaseIds \ {testCaseId} :
                         Accumulated(other)' = Accumulated(other)
                  /\ ~ message =>
                         Accumulated(testCaseId)'.messages = Accumulated(testCaseId).messages
                  /\ ~ links =>
                         Accumulated(testCaseId)'.resultLinks
                             = Accumulated(testCaseId).resultLinks
                  /\ ~ attachment =>
                         Accumulated(testCaseId)'.attachments
                             = Accumulated(testCaseId).attachments
      ]_vars

Queries == {"getTestResult", "isResolvedTestCase", "getAttachments"}

\* C17: a call of getTestResult (returning or throwing), isResolvedTestCase or
\* getAttachments leaves the seven collections and the three accumulation maps
\* (with the lists they refer to) as they were, and a getTestResult right after
\* a getTestResult for the same id gives the same result or the same error.
C17_QueriesReadOnly ==
    [][ret'.op \in Queries =>
          /\ store' = store
          /\ accumulators' = accumulators
          /\ (ret.op = "getTestResult" /\ ret'.op = "getTestResult" /\ ret'.arg = ret.arg)
                 => ret'.result = ret.result
      ]_vars

\* Draft's case gave a result that carries a message, links and an attachment
C17_Witness ==
    /\ ret.op = "getTestResult"
    /\ ret.arg = "c2"
    /\ ret.result.kind = "ok"
    /\ ret.result.value.message # None
    /\ ret.result.value.resultLinks # <<>>
    /\ ret.result.value.attachments # None

\* the first failing check of the chain of the steps from pickle step i on,
\* "none" when every step has its three records
RECURSIVE FirstMissingLink(_, _, _)
FirstMissingLink(steps, testCase, i) ==
    IF i > Len(steps) THEN "none"
    ELSE IF MissingLink(steps[i], testCase) # "none"
         THEN MissingLink(steps[i], testCase)
         ELSE FirstMissingLink(steps, testCase, i + 1)

\* the first check that fails for a case id, in the order: case, pickle,
\* external id, CaseStarted of the case, CaseFinished of that CaseStarted, the
\* steps' chain; "none" when no check fails
FirstFailingCheck(testId) ==
    IF StoredCases(testId) = {} THEN "TestCase not found"
    ELSE
    LET testCase == testCases[Min(StoredCases(testId))]
    IN  IF StoredPickles(testCase.pickleId) = {} THEN "Pickle not found"
        ELSE
        LET pickle == pickles[Min(StoredPickles(testCase.pickleId))]
            started == {i \in 1..Len(testCasesStarted) :
                           testCasesStarted[i].testCaseId = testCase.id}
        IN  IF parseTags(pickle.tags).externalId = None
            THEN "External ID is not provided"
            ELSE IF started = {} THEN "TestCaseStarted not found"
            ELSE IF \A j \in 1..Len(testCasesFinished) :
                        testCasesFinished[j].testCaseStartedId
                            # testCasesStarted[Min(started)].id
                 THEN "TestCaseFinished not found"
                 ELSE FirstMissingLink(pickle.steps, testCase, 1)

\* C18: when checks of a case fail, getTestResult throws the error of the
\* first failing one in the order case, pickle, external id, CaseStarted,
\* CaseFinished, then test step, StepStarted, StepFinished of each pickle step
\* in turn; it never reports a later check while an earlier one fails.
C18_FirstFailingCheckReported ==
    \A testId \in TestIds :
        FirstFailingCheck(testId) # "none" =>
            getTestResult(testId) = Error(FirstFailingCheck(testId))

\* the non-empty messages of the StepFinished records of SpecSteps' case, in
\* pickle-step order (the records are stored in that order)
RECURSIVE NonEmptyMessages(_)
NonEmptyMessages(finished) ==
    IF finished = <<>> THEN <<>>
    ELSE LET message == Head(finished).testStepResult.message
         IN  (IF message # None /\ message # Some("") THEN <<message[1]>> ELSE <<>>)
             \o NonEmptyMessages(Tail(finished))

\* C19: traces is the messages of the StepFinished records of all pickle
\* steps, in pickle-step order, joined with a double line break, and only
\* non-empty strings are joined: a step without message or with an empty one
\* adds nothing, a step whose result the skip filter dropped adds its message.
C19_TracesOfNonEmptyMessages ==
    (ret.op = "getTestResult" /\ ret.result.kind = "ok") =>
        ret.result.value.traces = Join(NonEmptyMessages(testStepsFinished), "\n\n")

====
